---- MODULE Spec2Model ----
(***************************************************************************)
(* Llama.generate, Llama.text_completion, Llama.chat_completion and        *)
(* sample_top_p of models/llama3/reference_impl/generation.py.             *)
(*                                                                         *)
(* generate is a Python generator: one action of the model is one pull     *)
(* (next()) of the generator, from where it is suspended to its next       *)
(* yield, return or exception; an adapter's loop body runs in the same     *)
(* action as the pull that feeds it.  Positions are 0-based as in the      *)
(* source; TLA+ sequences are 1-based, so position i of a buffer s is      *)
(* s[i + 1].                                                               *)
(*                                                                         *)
(* Numbers: a logit is a small integer, a probability is a weight over a   *)
(* common denominator (softmax in base 2, exact arithmetic), top_p is in   *)
(* tenths and temperature in halves.                                       *)
(***************************************************************************)
EXTENDS Integers, Sequences, FiniteSets, TLC

VARIABLES
    args,        \* per call: the arguments the caller passed
    pc,          \* per call: where the generator is
    gen,         \* per call: the locals of generate's frame
    out,         \* per call: the TokenResults yielded so far, in order
    forwards,    \* per call: the calls of model.forward made so far, in order
    budget_msg,  \* per call: "Out of token budget" was printed
    error,       \* per call: the exception that left the generator, if any
    adapter,     \* per call: the locals of text_completion / chat_completion
    prediction,  \* per call: what the adapter returned ({} = nothing)
    oracle,      \* the logits a deterministic collaborator returns per position
    sampler      \* the locals of one call of sample_top_p made on its own

vars == <<args, pc, gen, out, forwards, budget_msg, error, adapter, prediction, oracle,
          sampler>>

----------------------------------------------------------------------------
(* Bounds and collaborator constants *)

\* params.max_seq_len: the context limit the model was built with.
max_seq_len == 3

Calls == {1, 2}

\* Tokenizer ids: one ordinary token and the two end markers.
word_id == 0
eot_id == 1
eom_id == 2
pad_id == -1

Vocab == {word_id, eot_id, eom_id}
stop_tokens == {eom_id, eot_id}

\* Prompt tokens come from a two-symbol alphabet (an ordinary token and a stop
\* token, so that stop tokens inside the prompt occur).
PromptToks == {word_id, eot_id}

\* max_gen_len: Optional[int] = None; None is kept apart from every length.
None == -1

\* Logits: two levels; a row is flat or prefers one token
LogitVals == {0, 1}
FlatRow == [v \in Vocab |-> 0]
Rows == {r \in [Vocab -> LogitVals] : Cardinality({v \in Vocab : r[v] = 1}) <= 1}

\* top_p in tenths: -0.5, 0, 0.5, 1.0, 1.5
TopPs == {-5, 0, 5, 10, 15}
\* temperature in halves: -1.0, 0, 0.5, 1.0
Temperatures == {-2, 0, 1, 2}

Min(a, b) == IF a <= b THEN a ELSE b

RECURSIVE Pow2(_)
Pow2(n) == IF n <= 0 THEN 1 ELSE 2 * Pow2(n - 1)

RECURSIVE SumOver(_, _)
SumOver(f, S) ==
    IF S = {} THEN 0
    ELSE LET x == CHOOSE y \in S : TRUE IN f[x] + SumOver(f, S \ {x})

SeqsUpTo(S, n) == UNION {[1..k -> S] : k \in 1..n}

----------------------------------------------------------------------------
(* Tokenizer and formatter (collaborators) *)

\* tokenizer.decode of a single token
DecodeToken(t) ==
    IF t = eot_id THEN "<|eot_id|>"
    ELSE IF t = eom_id THEN "<|eom_id|>"
    ELSE "w"

\* tokenizer.decode of a token list: the fragments in order
Decode(ts) == [i \in 1..Len(ts) |-> DecodeToken(ts[i])]

\* formatter.decode_assistant_message(tokens, stop_reason)
decode_assistant_message(ts, reason) == [content |-> Decode(ts), stop_reason |-> reason]

----------------------------------------------------------------------------
(* Sampler *)

\* torch.argmax: the first index holding the maximum
ArgMax(row) ==
    CHOOSE v \in Vocab :
        /\ \A u \in Vocab : row[u] <= row[v]
        /\ \A u \in Vocab : row[u] = row[v] => v <= u

\* logits / temperature (temperature in halves, never 0 here)
Scale(l, temperature) ==
    IF temperature > 0 THEN (2 * l) \div temperature
    ELSE 0 - ((2 * l) \div (0 - temperature))

\* torch.softmax(logits[:, -1] / temperature): weights w over the denominator z
\* (softmax is unchanged by shifting every exponent, here by the smallest)
Softmax(row, temperature) ==
    LET x == [v \in Vocab |-> Scale(row[v], temperature)]
        lo == CHOOSE m \in {x[v] : v \in Vocab} : \A v \in Vocab : m <= x[v]
        w == [v \in Vocab |-> Pow2(x[v] - lo)]
    IN  [w |-> w, z |-> SumOver(w, Vocab)]

\* torch.sort(probs, descending=True): every order that is descending (the order
\* of equal entries is not specified)
DescOrders(w) ==
    {perm \in [1..Cardinality(Vocab) -> Vocab] :
        /\ \A i, j \in DOMAIN perm : i # j => perm[i] # perm[j]
        /\ \A i, j \in DOMAIN perm : i < j => w[perm[i]] >= w[perm[j]]}

\* probs_sum - probs_sort at sorted place k: the mass before place k
CumBefore(w, perm, k) == SumOver([j \in 1..(k - 1) |-> w[perm[j]]], 1..(k - 1))

\* Masked on the cumulative sum itself (probs_sum > p)
MaskedInclusive(probs, perm, k, p) == CumBefore(probs.w, perm, k + 1) * 10 > p * probs.z

\* Masked with >= for >
MaskedAtThreshold(probs, perm, k, p) == CumBefore(probs.w, perm, k) * 10 >= p * probs.z

\* mask = probs_sum - probs_sort > p
Masked(probs, perm, k, p) == CumBefore(probs.w, perm, k) * 10 > p * probs.z

\* MaskedSort with the mask inverted
MaskedSortInverted(probs, perm, p) ==
    [k \in 1..Cardinality(Vocab) |->
        IF Masked(probs, perm, k, p) THEN probs.w[perm[k]] ELSE 0]

\* line 352: probs_sort[mask] = 0.0 (weights over the denominator probs.z)
MaskedSort(probs, perm, p) ==
    [k \in 1..Cardinality(Vocab) |->
        IF Masked(probs, perm, k, p) THEN 0 ELSE probs.w[perm[k]]]

\* line 353: probs_sort.sum(dim=-1), the weight the kept entries are divided by
KeptSum(probs_sort) == SumOver(probs_sort, DOMAIN probs_sort)

\* line 354: the sorted places torch.multinomial can draw, those of positive
\* weight; none when every entry was masked (0/0 = NaN weights, it raises)
Multinomial(probs_sort) == {k \in DOMAIN probs_sort : probs_sort[k] > 0}

\* sample_top_p: the vocabulary ids it can return, over every order the sort
\* may produce; the empty set when it raises
sample_top_p(probs, p) ==
    {pk[1][pk[2]] : pk \in
        {qk \in DescOrders(probs.w) \X (1..Cardinality(Vocab)) :
            qk[2] \in Multinomial(MaskedSort(probs, qk[1], p))}}

\* UsesSampler with the test "temperature != 0"
UsesSamplerNonZero(temperature) == temperature # 0

\* lines 198-202: which path picks the token
UsesSampler(temperature) == temperature > 0

\* NextTokenChoices with temperature <= 0 sampled too, at temperature 1.0
NextTokenChoicesTempered(row, temperature, top_p) ==
    sample_top_p(Softmax(row, IF temperature > 0 THEN temperature ELSE 2), top_p)

NextTokenChoices(row, temperature, top_p) ==
    IF UsesSampler(temperature)
    THEN sample_top_p(Softmax(row, temperature), top_p)
    ELSE {ArgMax(row)}

\* -F.cross_entropy(logits, target, ignore_index=pad_id) at one position: the
\* log-likelihood log2(2^a / s), kept as <<a, s>>; 0.0 is <<0, 1>>
ZeroLogProb == <<0, 1>>
LogLik(row, target) ==
    IF target = pad_id THEN ZeroLogProb
    ELSE <<row[target], SumOver([v \in Vocab |-> Pow2(row[v])], Vocab)>>

\* Distributions handed to sample_top_p directly: every weight vector up to
\* MaxWeight per entry that is not all zero, over its own sum
MaxWeight == 3
Dists ==
    {[w |-> x, z |-> SumOver(x, Vocab)] :
        x \in {y \in [Vocab -> 0..MaxWeight] : SumOver(y, Vocab) > 0}}

\* thresholds handed to sample_top_p directly, in tenths
SamplerPs == TopPs \cup {1, 3, 9}

\* no call of sample_top_p on its own
NoSampler ==
    [pc |-> "idle", probs |-> [w |-> FlatRow, z |-> 0], p |-> 0, probs_idx |-> <<>>,
     probs_sort |-> <<>>, kept_sum |-> 0, drawn |-> {}, next_token |-> {}]

----------------------------------------------------------------------------
(* Arguments *)

Modes == {"generate", "text_completion", "chat_completion"}

Prompts == SeqsUpTo(PromptToks, max_seq_len)

\* max_gen_len as passed to generate directly: a length
GenLens == 0..(max_seq_len - 1)
\* max_gen_len as passed to an adapter: unset, zero, in range, at the limit,
\* past the limit
AdapterGenLens == {None, 0, 1, max_seq_len, max_seq_len + 1}

\* (temperature, top_p): every top_p where the sampler runs, a valid and an
\* invalid one where it does not
SamplingArgs ==
    {st \in Temperatures \X TopPs : st[1] > 0 \/ st[2] \in {5, 15}}

NoArgs ==
    [mode |-> "absent", prompt |-> <<>>, max_gen_len |-> 0, temperature |-> 0,
     top_p |-> 0, logprobs |-> FALSE]

ArgSets ==
    {[mode |-> m, prompt |-> p, max_gen_len |-> g, temperature |-> st[1],
      top_p |-> st[2], logprobs |-> lp] :
        m \in Modes, p \in Prompts, g \in GenLens \cup AdapterGenLens,
        st \in SamplingArgs, lp \in BOOLEAN}

ValidArgs(a) ==
    a.max_gen_len \in (IF a.mode = "generate" THEN GenLens ELSE AdapterGenLens)

\* ResolveMaxGenLen falling back to the context limit itself
ResolveMaxGenLenToLimit(m) ==
    IF m = None \/ m = 0 \/ m >= max_seq_len THEN max_seq_len ELSE m

\* ResolveMaxGenLen without the `max_gen_len == 0` disjunct
ResolveMaxGenLenKeepZero(m) ==
    IF m = None \/ m >= max_seq_len THEN max_seq_len - 1 ELSE m

\* lines 245-250 and 288-293
ResolveMaxGenLen(m) ==
    IF m = None \/ m = 0 \/ m >= max_seq_len THEN max_seq_len - 1 ELSE m

\* the max_gen_len that reaches generate
GenLenOf(a) ==
    IF a.mode = "generate" THEN a.max_gen_len ELSE ResolveMaxGenLen(a.max_gen_len)

PromptLen(c) == Len(args[c].prompt)

----------------------------------------------------------------------------
(* generate: the frame *)

\* line 167
PromptTooLong(len) == len >= max_seq_len

\* TotalLen without the cap at the context limit
TotalLenNoCap(max_gen_len, prompt_len) == max_gen_len + prompt_len

\* line 173
TotalLen(max_gen_len, prompt_len) == Min(max_gen_len + prompt_len, max_seq_len)

\* InitTokens with the buffer filled with zeros (torch.zeros for torch.full)
InitTokensZeros(prompt, tl) ==
    [i \in 1..tl |-> IF i <= Len(prompt) THEN prompt[i] ELSE 0]

\* lines 175-177
InitTokens(prompt, tl) ==
    [i \in 1..tl |-> IF i <= Len(prompt) THEN prompt[i] ELSE pad_id]

NoFrame ==
    [max_gen_len |-> 0, total_len |-> 0, tokens |-> <<>>, token_logprobs |-> {}, prev_pos |-> 0,
     cur_pos |-> 0, eos_reached |-> FALSE, input_text_mask |-> <<>>]

\* lines 151 and 173-183: the frame when the loop is entered, with the
\* max_gen_len generate was called with; cur_pos is the first value of
\* range(min_prompt_len, total_len)
Frame0(a) ==
    LET tl == TotalLen(GenLenOf(a), Len(a.prompt))
        toks == InitTokens(a.prompt, tl)
    IN  [max_gen_len |-> GenLenOf(a),
         total_len |-> tl,
         tokens |-> toks,
         token_logprobs |->
            IF a.logprobs THEN {[i \in 1..tl |-> ZeroLogProb]} ELSE {},
         prev_pos |-> 0,
         cur_pos |-> Len(a.prompt),
         eos_reached |-> FALSE,
         input_text_mask |-> [i \in 1..tl |-> toks[i] # pad_id]]

\* line 184
Degenerate(a) == Len(a.prompt) = TotalLen(GenLenOf(a), Len(a.prompt))

\* InRange with the range one short
InRangeShort(pos, tl) == pos < tl - 1

\* line 195: range(min_prompt_len, total_len) still has the value pos
InRange(pos, tl) == pos < tl

\* AllEos never true: the loop without its break
AllEosNever(f) == FALSE

\* line 234: all(eos_reached)
AllEos(f) == f.eos_reached

\* Entry without line 233: the cursor stays where it was
EntryNoCursor(c) ==
    IF pc[c] = "start" THEN Frame0(args[c])
    ELSE [gen[c] EXCEPT !.cur_pos = gen[c].cur_pos + 1]

\* Entry with the loop variable and the cursor not advancing
EntryStuck(c) == IF pc[c] = "start" THEN Frame0(args[c]) ELSE gen[c]

\* lines 233 and 195: the frame with which the next iteration starts
Entry(c) ==
    IF pc[c] = "start" THEN Frame0(args[c])
    ELSE [gen[c] EXCEPT !.prev_pos = gen[c].cur_pos, !.cur_pos = gen[c].cur_pos + 1]

\* Continues with one stop flag for all calls
ContinuesShared(c) ==
    \/ /\ pc[c] = "start"
       /\ ~PromptTooLong(PromptLen(c))
       /\ InRange(Frame0(args[c]).cur_pos, Frame0(args[c]).total_len)
    \/ /\ pc[c] = "suspended"
       /\ ~\E d \in Calls : AllEos(gen[d])
       /\ InRange(gen[c].cur_pos + 1, gen[c].total_len)

\* the next pull runs a loop iteration
Continues(c) ==
    \/ /\ pc[c] = "start"
       /\ ~PromptTooLong(PromptLen(c))
       /\ InRange(Frame0(args[c]).cur_pos, Frame0(args[c]).total_len)
    \/ /\ pc[c] = "suspended"
       /\ ~AllEos(gen[c])
       /\ InRange(gen[c].cur_pos + 1, gen[c].total_len)

\* line 196: the window handed to model.forward
Window(f) == [tokens |-> SubSeq(f.tokens, f.prev_pos + 1, f.cur_pos), start_pos |-> f.prev_pos]

\* StoreToken writing one position early
StoreTokenEarly(toks, pos, t) == [toks EXCEPT ![pos] = t]

\* line 209
StoreToken(toks, pos, t) == [toks EXCEPT ![pos + 1] = t]

\* ForceToken with the condition dropped: the buffer's value always
ForceTokenBuffer(f, sampled) == f.tokens[f.cur_pos + 1]

\* lines 206-208: torch.where(input_text_mask[:, cur_pos], tokens[:, cur_pos], next_token)
ForceToken(f, sampled) ==
    IF f.input_text_mask[f.cur_pos + 1] THEN f.tokens[f.cur_pos + 1] ELSE sampled

\* StopHit without the negation of the mask
StopHitInPrompt(f, t) == f.input_text_mask[f.cur_pos + 1] /\ t \in stop_tokens

\* StopHit without the test of the stop-token set
StopHitAnyToken(f, t) == ~f.input_text_mask[f.cur_pos + 1]

\* lines 220-222
StopHit(f, t) == ~f.input_text_mask[f.cur_pos + 1] /\ t \in stop_tokens

\* StoreLogProbs with the target not shifted: tokens[prev_pos : cur_pos]
StoreLogProbsUnshifted(lps, toks, f, lg) ==
    [i \in 1..Len(lps) |->
        IF i - 1 > f.prev_pos /\ i - 1 <= f.cur_pos
        THEN LogLik(lg[i - 1 - f.prev_pos], toks[i - 1])
        ELSE lps[i]]

\* lines 211-219: the log-likelihood of positions prev_pos+1 .. cur_pos, row k of
\* the logits against target k
StoreLogProbs(lps, toks, f, lg) ==
    [i \in 1..Len(lps) |->
        IF i - 1 > f.prev_pos /\ i - 1 <= f.cur_pos
        THEN LogLik(lg[i - 1 - f.prev_pos], toks[i])
        ELSE lps[i]]

\* lines 204-222: the frame after the iteration's writes
Iterate(f, lg, sampled) ==
    LET t == ForceToken(f, sampled)
        toks == StoreToken(f.tokens, f.cur_pos, t)
    IN  [f EXCEPT
            !.tokens = toks,
            !.token_logprobs =
                {StoreLogProbs(lps, toks, f, lg) : lps \in f.token_logprobs},
            !.eos_reached = f.eos_reached \/ StopHit(f, t)]

\* TokenResult with the slice starting at the cursor itself
TokenResultFromCursor(f, logprobs) ==
    [token |-> f.tokens[f.cur_pos + 1],
     text |-> DecodeToken(f.tokens[f.cur_pos + 1]),
     logprobs |->
        IF logprobs
        THEN {SubSeq(lps, f.prev_pos + 1, f.cur_pos + 1) : lps \in f.token_logprobs}
        ELSE {}]

\* lines 223-231
TokenResult(f, logprobs) ==
    [token |-> f.tokens[f.cur_pos + 1],
     text |-> DecodeToken(f.tokens[f.cur_pos + 1]),
     logprobs |->
        IF logprobs
        THEN {SubSeq(lps, f.prev_pos + 2, f.cur_pos + 1) : lps \in f.token_logprobs}
        ELSE {}]

\* lines 186-191: log-likelihoods over the whole prompt, row i against token i
FullPromptLogProbs(toks, lg) == [i \in 1..Len(toks) |-> LogLik(lg[i], toks[i])]

----------------------------------------------------------------------------
(* The adapters' frames *)

NoAdapter == [tokens |-> <<>>, token_logprobs |-> <<>>, decoded_tokens |-> <<>>,
              stop_reason |-> "None"]

\* Accumulate leaving a stop token out of the token list
AccumulateDropStop(a, ad, result) ==
    [tokens |->
        IF result.token \in stop_tokens THEN ad.tokens
        ELSE Append(ad.tokens, result.token),
     token_logprobs |->
        IF a.logprobs THEN Append(ad.token_logprobs, result.logprobs)
        ELSE ad.token_logprobs,
     decoded_tokens |->
        IF a.logprobs THEN Append(ad.decoded_tokens, result.text)
        ELSE ad.decoded_tokens,
     stop_reason |->
        IF a.mode # "chat_completion" THEN ad.stop_reason
        ELSE IF result.text = "<|eot_id|>" THEN "end_of_turn"
        ELSE IF result.text = "<|eom_id|>" THEN "end_of_message"
        ELSE ad.stop_reason]

\* lines 264-267 and 309-317: the loop body on one result
Accumulate(a, ad, result) ==
    [tokens |-> Append(ad.tokens, result.token),
     token_logprobs |->
        IF a.logprobs THEN Append(ad.token_logprobs, result.logprobs)
        ELSE ad.token_logprobs,
     decoded_tokens |->
        IF a.logprobs THEN Append(ad.decoded_tokens, result.text)
        ELSE ad.decoded_tokens,
     stop_reason |->
        IF a.mode # "chat_completion" THEN ad.stop_reason
        ELSE IF result.text = "<|eot_id|>" THEN "end_of_turn"
        ELSE IF result.text = "<|eom_id|>" THEN "end_of_message"
        ELSE ad.stop_reason]

\* FinalStopReason without the default
FinalStopReasonRaw(ad) == ad.stop_reason

\* lines 319-320
FinalStopReason(ad) == IF ad.stop_reason = "None" THEN "out_of_tokens" ELSE ad.stop_reason

\* Returned with the diagnostics lists attached whether requested or not
ReturnedWithDiagnostics(a, ad) ==
    IF a.mode = "generate" THEN {}
    ELSE {[generation |->
              IF a.mode = "text_completion" THEN Decode(ad.tokens)
              ELSE decode_assistant_message(ad.tokens, FinalStopReason(ad)),
           logprobs |-> {ad.token_logprobs},
           decoded_tokens |-> {ad.decoded_tokens}]}

\* lines 269-277 and 319-331: what the adapter returns once the generator is
\* exhausted; a direct caller of generate gets nothing more
Returned(a, ad) ==
    IF a.mode = "generate" THEN {}
    ELSE {[generation |->
              IF a.mode = "text_completion" THEN Decode(ad.tokens)
              ELSE decode_assistant_message(ad.tokens, FinalStopReason(ad)),
           logprobs |-> IF a.logprobs THEN {ad.token_logprobs} ELSE {},
           decoded_tokens |-> IF a.logprobs THEN {ad.decoded_tokens} ELSE {}]}

----------------------------------------------------------------------------
(* The forward-pass collaborator *)

\* what model.forward may return for a window of n positions: any logits.  The
\* rows before the last are read only for the log-likelihoods (lines 186 and
\* 214), so they are left flat when nothing reads them
FreeLogits(n, rows_read) ==
    IF rows_read THEN [1..n -> Rows]
    ELSE {[k \in 1..n |-> IF k = n THEN r ELSE FlatRow] : r \in Rows}

\* a collaborator that answers from the oracle: the same logits for the same
\* input position, whoever asks
OracleLogits(f) == [k \in 1..(f.cur_pos - f.prev_pos) |-> oracle[f.prev_pos + k]]

----------------------------------------------------------------------------
(* Actions: one pull of the generator each *)

Others(c) == UNCHANGED <<args, oracle, sampler>>

\* lines 167-171: the prompt fills the context; print and return
Reject(c) ==
    /\ pc[c] = "start"
    /\ PromptTooLong(PromptLen(c))
    /\ budget_msg' = [budget_msg EXCEPT ![c] = TRUE]
    /\ pc' = [pc EXCEPT ![c] = "done"]
    /\ prediction' = [prediction EXCEPT ![c] = Returned(args[c], adapter[c])]
    /\ UNCHANGED <<gen, out, forwards, error, adapter>>
    /\ Others(c)

\* lines 173-195 with min_prompt_len == total_len: one forward pass over the
\* whole buffer, the log-likelihoods into the local, an empty range, return
DegeneratePass(c, lg) ==
    /\ pc[c] = "start"
    /\ ~PromptTooLong(PromptLen(c))
    /\ Degenerate(args[c])
    /\ LET f == Frame0(args[c]) IN
        /\ forwards' = [forwards EXCEPT ![c] =
                Append(@, [tokens |-> f.tokens, start_pos |-> f.prev_pos])]
        /\ gen' = [gen EXCEPT ![c] =
                [f EXCEPT !.token_logprobs = {FullPromptLogProbs(f.tokens, lg)}]]
    /\ pc' = [pc EXCEPT ![c] = "done"]
    /\ prediction' = [prediction EXCEPT ![c] = Returned(args[c], adapter[c])]
    /\ UNCHANGED <<out, budget_msg, error, adapter>>
    /\ Others(c)

\* ForwardFails with the exception caught and the loop left
ForwardFailsSwallowed(c) ==
    /\ \/ Continues(c)
       \/ pc[c] = "start" /\ ~PromptTooLong(PromptLen(c)) /\ Degenerate(args[c])
    /\ forwards' = [forwards EXCEPT ![c] = Append(@, Window(Entry(c)))]
    /\ gen' = [gen EXCEPT ![c] = Entry(c)]
    /\ pc' = [pc EXCEPT ![c] = "done"]
    /\ error' = [error EXCEPT ![c] = "forward"]
    /\ prediction' = [prediction EXCEPT ![c] = Returned(args[c], adapter[c])]
    /\ UNCHANGED <<out, budget_msg, adapter>>
    /\ Others(c)

\* lines 185 and 196: model.forward raises; nothing catches it
ForwardFails(c) ==
    /\ \/ Continues(c)
       \/ pc[c] = "start" /\ ~PromptTooLong(PromptLen(c)) /\ Degenerate(args[c])
    /\ LET f == Entry(c) IN
        /\ forwards' = [forwards EXCEPT ![c] =
                Append(@, IF pc[c] = "start" /\ Degenerate(args[c])
                          THEN [tokens |-> f.tokens, start_pos |-> f.prev_pos]
                          ELSE Window(f))]
        /\ gen' = [gen EXCEPT ![c] = f]
    /\ pc' = [pc EXCEPT ![c] = "raised"]
    /\ error' = [error EXCEPT ![c] = "forward"]
    /\ UNCHANGED <<out, budget_msg, adapter, prediction>>
    /\ Others(c)

\* lines 196-200: the forward pass returns, sample_top_p raises
SampleFails(c, lg) ==
    /\ Continues(c)
    /\ LET f == Entry(c) IN
        /\ NextTokenChoices(lg[Len(lg)], args[c].temperature, args[c].top_p) = {}
        /\ forwards' = [forwards EXCEPT ![c] = Append(@, Window(f))]
        /\ gen' = [gen EXCEPT ![c] = f]
    /\ pc' = [pc EXCEPT ![c] = "raised"]
    /\ error' = [error EXCEPT ![c] = "sampling"]
    /\ UNCHANGED <<out, budget_msg, adapter, prediction>>
    /\ Others(c)

\* lines 195-231: one iteration, up to its yield; the adapter's loop body
Step(c, lg) ==
    /\ Continues(c)
    /\ LET f == Entry(c) IN
        \E sampled \in NextTokenChoices(lg[Len(lg)], args[c].temperature, args[c].top_p) :
            LET g == Iterate(f, lg, sampled)
                result == TokenResult(g, args[c].logprobs)
            IN  /\ forwards' = [forwards EXCEPT ![c] = Append(@, Window(f))]
                /\ gen' = [gen EXCEPT ![c] = g]
                /\ out' = [out EXCEPT ![c] = Append(@, result)]
                /\ adapter' = [adapter EXCEPT ![c] =
                        IF args[c].mode = "generate" THEN @
                        ELSE Accumulate(args[c], @, result)]
    /\ pc' = [pc EXCEPT ![c] = "suspended"]
    /\ UNCHANGED <<budget_msg, error, prediction>>
    /\ Others(c)

\* Finish with a forward pass run before the end of the loop is noticed
FinishAfterPass(c) ==
    /\ pc[c] = "suspended"
    /\ ~Continues(c)
    /\ gen' = [gen EXCEPT ![c].prev_pos = gen[c].cur_pos]
    /\ forwards' = [forwards EXCEPT ![c] = Append(@, Window(Entry(c)))]
    /\ pc' = [pc EXCEPT ![c] = "done"]
    /\ prediction' = [prediction EXCEPT ![c] = Returned(args[c], adapter[c])]
    /\ UNCHANGED <<out, budget_msg, error, adapter>>
    /\ Others(c)

\* lines 233-235 and 195: after the last yield, the break or the end of the
\* range; the adapter builds its prediction
Finish(c) ==
    /\ pc[c] = "suspended"
    /\ ~Continues(c)
    /\ gen' = [gen EXCEPT ![c].prev_pos = gen[c].cur_pos]
    /\ pc' = [pc EXCEPT ![c] = "done"]
    /\ prediction' = [prediction EXCEPT ![c] = Returned(args[c], adapter[c])]
    /\ UNCHANGED <<out, forwards, budget_msg, error, adapter>>
    /\ Others(c)

\* the logits the next forward pass of call c may return
WindowLogits(c) ==
    LET f == Entry(c) IN
    FreeLogits(f.cur_pos - f.prev_pos, args[c].logprobs)

PromptLogits(c) == FreeLogits(PromptLen(c), TRUE)

----------------------------------------------------------------------------
(* One call, any collaborator *)

Fresh ==
    /\ pc = [c \in Calls |-> IF args[c].mode = "absent" THEN "absent" ELSE "start"]
    /\ gen = [c \in Calls |-> NoFrame]
    /\ out = [c \in Calls |-> <<>>]
    /\ forwards = [c \in Calls |-> <<>>]
    /\ budget_msg = [c \in Calls |-> FALSE]
    /\ error = [c \in Calls |-> "none"]
    /\ adapter = [c \in Calls |-> NoAdapter]
    /\ prediction = [c \in Calls |-> {}]

Init ==
    /\ \E a \in {x \in ArgSets : ValidArgs(x)} :
            args = [c \in Calls |-> IF c = 1 THEN a ELSE NoArgs]
    /\ oracle = <<>>
    /\ sampler = NoSampler
    /\ Fresh

Next ==
    \E c \in Calls :
        \/ Reject(c)
        \/ \E lg \in PromptLogits(c) : DegeneratePass(c, lg)
        \/ ForwardFails(c)
        \/ \E lg \in WindowLogits(c) : SampleFails(c, lg)
        \/ \E lg \in WindowLogits(c) : Step(c, lg)
        \/ Finish(c)

Spec == Init /\ [][Next]_vars

----------------------------------------------------------------------------
(* Two calls with the same arguments against a deterministic collaborator *)

DetArgs ==
    {a \in ArgSets :
        /\ a.mode = "generate" /\ a.max_gen_len \in GenLens
        /\ a.temperature <= 0 /\ a.top_p = 5 /\ ~a.logprobs}

InitDet ==
    /\ \E a \in DetArgs : args = [c \in Calls |-> a]
    /\ oracle \in [1..(max_seq_len - 1) -> Rows]
    /\ sampler = NoSampler
    /\ Fresh

NextDet ==
    \E c \in Calls :
        \/ Reject(c)
        \/ DegeneratePass(c, [k \in 1..PromptLen(c) |-> oracle[k]])
        \/ Step(c, OracleLogits(Entry(c)))
        \/ Finish(c)

SpecDet == InitDet /\ [][NextDet]_vars

----------------------------------------------------------------------------
(* One call of generate against a collaborator whose logits are known *)

\* (temperature, top_p): arg-max with two thresholds and a negative
\* temperature, sampling with thresholds inside and outside (0, 1]
OracleSampling == {<<-2, 5>>, <<0, 5>>, <<0, 15>>, <<1, -5>>, <<1, 5>>, <<2, 10>>}

OracleArgs ==
    {a \in ArgSets :
        /\ a.mode = "generate" /\ a.max_gen_len \in GenLens
        /\ <<a.temperature, a.top_p>> \in OracleSampling}

InitOracle ==
    /\ \E a \in OracleArgs : args = [c \in Calls |-> IF c = 1 THEN a ELSE NoArgs]
    /\ oracle \in [1..(max_seq_len - 1) -> Rows]
    /\ sampler = NoSampler
    /\ Fresh

NextOracle ==
    \E c \in Calls :
        \/ Reject(c)
        \/ DegeneratePass(c, [k \in 1..PromptLen(c) |-> oracle[k]])
        \/ SampleFails(c, OracleLogits(Entry(c)))
        \/ Step(c, OracleLogits(Entry(c)))
        \/ Finish(c)

SpecOracle == InitOracle /\ [][NextOracle]_vars

----------------------------------------------------------------------------
(* Two calls of generate in flight at once, their pulls interleaved *)

\* the logits a forward pass may return here: flat, or preferring <|eot_id|>
PairRows == {FlatRow, [v \in Vocab |-> IF v = eot_id THEN 1 ELSE 0]}

\* arg-max, and sampling at temperature 1.0 with top_p 1.0
PairSampling == {<<0, 5>>, <<2, 10>>}

\* prompts of one token, of the longest admitted length, and too long; no
\* budget, one token, the largest budget
PairPromptLens == {1, max_seq_len - 1, max_seq_len}
PairGenLens == {0, 1, max_seq_len - 1}

PairArgs ==
    {a \in ArgSets :
        /\ a.mode = "generate" /\ a.max_gen_len \in PairGenLens /\ ~a.logprobs
        /\ Len(a.prompt) \in PairPromptLens
        /\ \A i \in 1..Len(a.prompt) : a.prompt[i] = word_id
        /\ <<a.temperature, a.top_p>> \in PairSampling}

\* line 196: what model.forward returns to call c, each call having its own
\* row per input position
PairLogits(c, f) ==
    [k \in 1..(f.cur_pos - f.prev_pos) |->
        oracle[(c - 1) * (max_seq_len - 1) + f.prev_pos + k]]

InitPair ==
    /\ args \in [Calls -> PairArgs]
    /\ oracle \in [1..(2 * (max_seq_len - 1)) -> PairRows]
    /\ sampler = NoSampler
    /\ Fresh

NextPair ==
    \E c \in Calls :
        \/ Reject(c)
        \/ DegeneratePass(c, PairLogits(c, [prev_pos |-> 0, cur_pos |-> PromptLen(c)]))
        \/ Step(c, PairLogits(c, Entry(c)))
        \/ Finish(c)

SpecPair == InitPair /\ [][NextPair]_vars

----------------------------------------------------------------------------
(* One call whose forward passes all return and whose caller keeps pulling *)

\* one pull of the generator of call c, the forward pass returning
Pull(c) ==
    \/ Reject(c)
    \/ \E lg \in PromptLogits(c) : DegeneratePass(c, lg)
    \/ \E lg \in WindowLogits(c) : SampleFails(c, lg)
    \/ \E lg \in WindowLogits(c) : Step(c, lg)
    \/ Finish(c)

NextLive == \E c \in Calls : Pull(c)

\* (temperature, top_p) of the calls followed to their end: arg-max, sampling
\* over the whole distribution, and a top_p on which sample_top_p raises
LiveSampling == {<<0, 5>>, <<2, 10>>, <<1, -5>>}

\* every mode, prompt and max_gen_len; log-probabilities do not bear on how long
\* the loop runs and are left out
LiveArgs ==
    {a \in ArgSets :
        ValidArgs(a) /\ ~a.logprobs /\ <<a.temperature, a.top_p>> \in LiveSampling}

InitLive ==
    /\ \E a \in LiveArgs : args = [c \in Calls |-> IF c = 1 THEN a ELSE NoArgs]
    /\ oracle = <<>>
    /\ sampler = NoSampler
    /\ Fresh

\* the adapters' for loops, and a caller who iterates to the end, pull again
\* whenever the generator can be pulled
SpecLive == InitLive /\ [][NextLive]_vars /\ \A c \in Calls : WF_vars(Pull(c))

----------------------------------------------------------------------------
(* sample_top_p called on its own, on any distribution and any threshold *)

InitSampler ==
    /\ \E d \in Dists, p \in SamplerPs :
            sampler = [NoSampler EXCEPT !.pc = "start", !.probs = d, !.p = p]
    /\ args = [c \in Calls |-> NoArgs]
    /\ oracle = <<>>
    /\ Fresh

\* lines 349-356, multinomial draws sorted place k
SampleTopP(perm, k) ==
    /\ sampler.pc = "start"
    /\ LET probs_sort == MaskedSort(sampler.probs, perm, sampler.p) IN
        /\ k \in Multinomial(probs_sort)
        /\ sampler' = [sampler EXCEPT
                !.pc = "returned", !.probs_idx = perm, !.probs_sort = probs_sort,
                !.kept_sum = KeptSum(probs_sort), !.drawn = {k},
                !.next_token = {perm[k]}]
    /\ UNCHANGED <<args, pc, gen, out, forwards, budget_msg, error, adapter,
                   prediction, oracle>>

\* lines 349-354, every entry masked: the division gives NaN, multinomial raises
SampleTopPRaises(perm) ==
    /\ sampler.pc = "start"
    /\ LET probs_sort == MaskedSort(sampler.probs, perm, sampler.p) IN
        /\ Multinomial(probs_sort) = {}
        /\ sampler' = [sampler EXCEPT
                !.pc = "raised", !.probs_idx = perm, !.probs_sort = probs_sort,
                !.kept_sum = KeptSum(probs_sort)]
    /\ UNCHANGED <<args, pc, gen, out, forwards, budget_msg, error, adapter,
                   prediction, oracle>>

NextSampler ==
    \E perm \in DescOrders(sampler.probs.w) :
        \/ \E k \in 1..Cardinality(Vocab) : SampleTopP(perm, k)
        \/ SampleTopPRaises(perm)

SpecSampler == InitSampler /\ [][NextSampler]_vars

----------------------------------------------------------------------------
(* Claims *)

\* the frame of call c exists: generate got past line 171
HasFrame(c) == pc[c] \in {"suspended", "done", "raised"} /\ ~budget_msg[c]

Tokens(c) == [k \in 1..Len(out[c]) |-> out[c][k].token]

StopEmitted(c) == \E k \in 1..Len(out[c]) : out[c][k].token \in stop_tokens

\* C1: in every state generate reaches, positions 0 .. L-1 of the token buffer
\* hold the prompt, whatever the sampler returned.
C1_PromptEcho ==
    \A c \in Calls : HasFrame(c) =>
        /\ Len(gen[c].tokens) >= PromptLen(c)
        /\ \A i \in 1..PromptLen(c) : gen[c].tokens[i] = args[c].prompt[i]

C1_Witness ==
    /\ pc[1] = "done" /\ args[1].temperature > 0 /\ Len(out[1]) = 2
    /\ out[1][1].token # args[1].prompt[1]

\* C2: the number of TokenResults never exceeds total_len - min_prompt_len, and a
\* run whose generator returned with fewer has emitted a stop token (emitted
\* positions are all past the prompt).
C2_Termination ==
    \A c \in Calls : HasFrame(c) =>
        /\ Len(out[c]) <= gen[c].total_len - PromptLen(c)
        /\ (pc[c] = "done" /\ Len(out[c]) < gen[c].total_len - PromptLen(c)) =>
                \E k \in 1..Len(out[c]) :
                    /\ out[c][k].token \in stop_tokens
                    /\ ~gen[c].input_text_mask[PromptLen(c) + k]

C2_Witness ==
    /\ pc[1] = "done" /\ HasFrame(1)
    /\ Len(out[1]) = 1 /\ gen[1].total_len - PromptLen(1) = 2

\* C3: a stop token emitted past the prompt is a TokenResult and the last one;
\* after it no forward pass, no buffer write and no result happens; a run that
\* returns without one has processed position total_len - 1.
C3_StopInv ==
    \A c \in Calls : HasFrame(c) =>
        /\ \A k \in 1..Len(out[c]) :
                out[c][k].token \in stop_tokens => k = Len(out[c])
        /\ \A k \in 1..Len(out[c]) :
                gen[c].tokens[PromptLen(c) + k] = out[c][k].token
        /\ \A i \in (PromptLen(c) + 1)..gen[c].total_len :
                gen[c].tokens[i] \in stop_tokens => i - PromptLen(c) = Len(out[c])
        /\ gen[c].eos_reached <=> StopEmitted(c)
        /\ (pc[c] = "done" /\ ~StopEmitted(c)) =>
                /\ Len(out[c]) = gen[c].total_len - PromptLen(c)
                /\ Len(out[c]) > 0 => gen[c].cur_pos = gen[c].total_len - 1

C3_StopStep ==
    \A c \in Calls : StopEmitted(c) =>
        /\ out'[c] = out[c]
        /\ forwards'[c] = forwards[c]
        /\ gen'[c].tokens = gen[c].tokens

\* C3: the stop token is the last result and nothing of the call changes after
\* it (C3_StopInv in every state, C3_StopStep in every step).
C3_StopCondition == []C3_StopInv /\ [][C3_StopStep]_vars

C3_Witness ==
    /\ pc[1] = "done" /\ StopEmitted(1)
    /\ Len(out[1]) = 1 /\ gen[1].total_len - PromptLen(1) = 2
    /\ Len(forwards[1]) = 1

\* C4: the buffer keeps the length min(max_gen_len + prompt_len, max_seq_len), so
\* at most max_gen_len tokens are emitted and prompt plus output fit the context.
C4_Budget ==
    \A c \in Calls : HasFrame(c) =>
        LET L == PromptLen(c)
            g == GenLenOf(args[c])
        IN  /\ gen[c].total_len = (IF g + L <= max_seq_len THEN g + L ELSE max_seq_len)
            /\ Len(gen[c].tokens) = gen[c].total_len
            /\ Len(out[c]) <= g
            /\ L + Len(out[c]) <= max_seq_len

C4_Witness ==
    /\ pc[1] = "done" /\ HasFrame(1)
    /\ GenLenOf(args[1]) + PromptLen(1) > max_seq_len
    /\ PromptLen(1) + Len(out[1]) = max_seq_len

\* C5: a prompt of max_seq_len tokens or more gives no TokenResult and no forward
\* pass, and the caller is told of the failure: the pull raises.
C5_TooLongSignalled ==
    \A c \in Calls :
        (pc[c] \notin {"absent", "start"} /\ PromptTooLong(PromptLen(c))) =>
            /\ out[c] = <<>>
            /\ forwards[c] = <<>>
            /\ pc[c] = "raised"

\* C6: text_completion / chat_completion given a too-long prompt fail: they
\* return no prediction, unlike a generation that came out empty.
C6_TooLongNoPrediction ==
    \A c \in Calls :
        (args[c].mode \in {"text_completion", "chat_completion"}
            /\ pc[c] \notin {"absent", "start"} /\ PromptTooLong(PromptLen(c))) =>
                prediction[c] = {}

\* what the caller of call c has received of log-probabilities
DeliveredLogProbs(c) ==
    UNION ({out[c][k].logprobs : k \in 1..Len(out[c])}
            \cup {p.logprobs : p \in prediction[c]})

\* C7: when the prompt fills total_len, generate makes one forward pass over the
\* prompt, emits nothing, and the caller who asked for log-probabilities gets
\* those of the prompt.
C7_DegenerateLogProbs ==
    \A c \in Calls :
        (pc[c] = "done" /\ HasFrame(c) /\ Degenerate(args[c]) /\ args[c].logprobs) =>
            /\ Len(forwards[c]) = 1
            /\ forwards[c][1] = [tokens |-> args[c].prompt, start_pos |-> 0]
            /\ out[c] = <<>>
            /\ DeliveredLogProbs(c) # {}

\* C8: a failing forward pass raises out of the pull in which it happens: the
\* results already yielded stay delivered, the pass is not retried, nothing
\* runs afterwards, and the adapter returns no prediction.
C8_FailInv ==
    \A c \in Calls : error[c] = "forward" =>
        /\ pc[c] = "raised"
        /\ prediction[c] = {}

C8_FailStep ==
    \A c \in Calls :
        /\ (pc[c] # "raised" /\ pc'[c] = "raised" /\ error'[c] = "forward") =>
                /\ out'[c] = out[c]
                /\ adapter'[c] = adapter[c]
                /\ Len(forwards'[c]) = Len(forwards[c]) + 1
        /\ pc[c] = "raised" =>
                /\ pc'[c] = "raised"
                /\ out'[c] = out[c]
                /\ forwards'[c] = forwards[c]
                /\ prediction'[c] = {}

\* C8: a forward-pass failure ends the call with an exception and without a
\* prediction (C8_FailInv in every state, C8_FailStep in every step).
C8_ForwardFailure == []C8_FailInv /\ [][C8_FailStep]_vars

C8_Witness ==
    /\ pc[1] = "raised" /\ error[1] = "forward"
    /\ args[1].mode = "text_completion"
    /\ Len(out[1]) = 1 /\ Len(adapter[1].tokens) = 1 /\ Len(forwards[1]) = 2
    /\ prediction[1] = {}

\* C9: a call whose top_p is outside (0, 1] raises before any forward pass and
\* emits nothing (stated where top_p is consumed: the prompt is accepted, there
\* is room to generate, temperature > 0 and the forward pass itself does not fail).
C9_InvalidTopPFailsFast ==
    \A c \in Calls :
        (pc[c] \notin {"absent", "start"} /\ ~PromptTooLong(PromptLen(c))
            /\ ~Degenerate(args[c]) /\ args[c].temperature > 0
            /\ error[c] # "forward"
            /\ ~(args[c].top_p > 0 /\ args[c].top_p <= 10)) =>
                /\ pc[c] = "raised"
                /\ forwards[c] = <<>>
                /\ out[c] = <<>>

\* C10: two runs with the same prompt, the same max_gen_len, temperature <= 0 and
\* the same logits agree on every token both have emitted, and once both have
\* returned they have emitted the same tokens and hold the same buffer.
C10_Deterministic ==
    (args[1] = args[2] /\ args[1].temperature <= 0) =>
        /\ \A k \in 1..Min(Len(out[1]), Len(out[2])) : out[1][k] = out[2][k]
        /\ (pc[1] = "done" /\ pc[2] = "done") =>
                /\ Tokens(1) = Tokens(2)
                /\ gen[1].tokens = gen[2].tokens

C10_Witness ==
    /\ pc[1] = "done" /\ pc[2] = "done"
    /\ args[1].temperature < 0
    /\ Len(out[1]) = 2 /\ Tokens(1) = Tokens(2)
    /\ out[1][2].token = eom_id

\* sample_top_p has run to its end, one way or the other
SamplerRan == sampler.pc \in {"returned", "raised"}

\* the mass of the first n sorted entries, over sampler.probs.z
PrefixMass(n) == CumBefore(sampler.probs.w, sampler.probs_idx, n + 1)

\* the prefix n exceeds the threshold
Exceeds(n) == PrefixMass(n) * 10 > sampler.p * sampler.probs.z

\* the length of the smallest prefix whose mass exceeds p; every entry when no
\* prefix does
PrefixEnd ==
    IF \E n \in 1..Cardinality(Vocab) : Exceeds(n)
    THEN CHOOSE n \in 1..Cardinality(Vocab) :
            Exceeds(n) /\ \A m \in 1..(n - 1) : ~Exceeds(m)
    ELSE Cardinality(Vocab)

\* C11: for p in (0, 1], sample_top_p returns, the place it draws lies in the
\* smallest prefix of the sorted distribution whose mass exceeds p, the entries
\* zeroed are exactly those past that prefix, and the entry that crosses the
\* threshold keeps its weight.
C11_NucleusPrefix ==
    (SamplerRan /\ sampler.p > 0 /\ sampler.p <= 10) =>
        /\ sampler.pc = "returned"
        /\ \A k \in sampler.drawn :
                k <= PrefixEnd /\ sampler.next_token = {sampler.probs_idx[k]}
        /\ \A k \in 1..Cardinality(Vocab) :
                sampler.probs_sort[k] =
                    (IF k <= PrefixEnd THEN sampler.probs.w[sampler.probs_idx[k]] ELSE 0)
        /\ Exceeds(PrefixEnd) => sampler.probs_sort[PrefixEnd] > 0

C11_Witness ==
    /\ sampler.pc = "returned" /\ sampler.p = 5
    /\ PrefixEnd = 2 /\ sampler.drawn = {2}
    /\ PrefixMass(1) * 10 = sampler.p * sampler.probs.z
    /\ sampler.probs.w[sampler.probs_idx[3]] > 0

\* C12: with p = 1.0 no entry is masked: the sorted weights are the original
\* ones and the divisor is the whole mass, so every entry of non-zero
\* probability can be drawn with its original probability.
C12_FullMass ==
    (SamplerRan /\ sampler.p = 10) =>
        /\ sampler.pc = "returned"
        /\ \A k \in 1..Cardinality(Vocab) :
                /\ ~Masked(sampler.probs, sampler.probs_idx, k, sampler.p)
                /\ sampler.probs_sort[k] = sampler.probs.w[sampler.probs_idx[k]]
        /\ sampler.kept_sum = sampler.probs.z
        /\ \A v \in Vocab : sampler.probs.w[v] > 0 =>
                \E k \in Multinomial(sampler.probs_sort) : sampler.probs_idx[k] = v

C12_Witness ==
    /\ sampler.pc = "returned" /\ sampler.p = 10
    /\ sampler.drawn = {3}
    /\ sampler.probs.w[sampler.probs_idx[3]] < sampler.probs.w[sampler.probs_idx[2]]
    /\ sampler.probs.w[sampler.probs_idx[2]] < sampler.probs.w[sampler.probs_idx[1]]

\* the distribution has exactly one non-zero entry
SingleEntry == Cardinality({v \in Vocab : sampler.probs.w[v] > 0}) = 1

\* C13 as stated: on a distribution with exactly one non-zero entry
\* sample_top_p returns that entry's index, for every p.
C13_SingleEntryAnyP ==
    (SamplerRan /\ SingleEntry) =>
        /\ sampler.pc = "returned"
        /\ \A v \in sampler.next_token : sampler.probs.w[v] > 0

\* C13: on a distribution with exactly one non-zero entry sample_top_p returns
\* that entry's index, for every p >= 0.
C13_SingleEntry ==
    (SamplerRan /\ SingleEntry /\ sampler.p >= 0) =>
        /\ sampler.pc = "returned"
        /\ \A v \in sampler.next_token : sampler.probs.w[v] > 0

C13_Witness ==
    /\ sampler.pc = "returned" /\ SingleEntry /\ sampler.p = 0
    /\ sampler.next_token = {eom_id}

\* call c is a chat completion whose first result decodes to the end-of-turn
\* marker
FirstIsEndOfTurn(c) ==
    /\ args[c].mode = "chat_completion"
    /\ Len(out[c]) >= 1
    /\ out[c][1].text = "<|eot_id|>"

C14_Inv ==
    \A c \in Calls : FirstIsEndOfTurn(c) =>
        /\ Len(out[c]) = 1
        /\ Len(forwards[c]) = 1
        /\ pc[c] \in {"suspended", "done"}
        /\ adapter[c].stop_reason = "end_of_turn"
        /\ pc[c] = "done" =>
                /\ prediction[c] # {}
                /\ \A pr \in prediction[c] :
                        pr.generation =
                            decode_assistant_message(<<out[c][1].token>>, "end_of_turn")

C14_Step ==
    \A c \in Calls : FirstIsEndOfTurn(c) =>
        /\ forwards'[c] = forwards[c]
        /\ out'[c] = out[c]
        /\ pc'[c] \in {pc[c], "done"}

\* C14: in a chat completion whose first generated token decodes to
\* "<|eot_id|>", decode_assistant_message is given end_of_turn and no forward
\* pass and no result follows that token (C14_Inv in every state, C14_Step in
\* every step).
C14_EndOfTurn == []C14_Inv /\ [][C14_Step]_vars

C14_Witness ==
    /\ pc[1] = "done" /\ FirstIsEndOfTurn(1)
    /\ gen[1].total_len - PromptLen(1) = 2
    /\ \E pr \in prediction[1] : pr.generation.stop_reason = "end_of_turn"

StopReasons == {"end_of_turn", "end_of_message", "out_of_tokens"}

\* the texts of the results of call c
Texts(c) == {out[c][k].text : k \in 1..Len(out[c])}

C15_Inv ==
    \A c \in Calls : (args[c].mode = "chat_completion" /\ pc[c] = "done") =>
        /\ Cardinality(prediction[c]) = 1
        /\ \A pr \in prediction[c] :
                /\ pr.generation.stop_reason \in StopReasons
                /\ pr.generation.stop_reason = "out_of_tokens"
                        <=> Texts(c) \cap {"<|eot_id|>", "<|eom_id|>"} = {}
                /\ pr.generation.stop_reason = "end_of_turn"
                        <=> "<|eot_id|>" \in Texts(c)
                /\ pr.generation.stop_reason = "end_of_message"
                        <=> "<|eom_id|>" \in Texts(c)

C15_Step ==
    \A c \in Calls :
        /\ adapter[c].stop_reason # "None" => adapter'[c].stop_reason = adapter[c].stop_reason
        /\ prediction[c] # {} => prediction'[c] = prediction[c]

\* C15: a chat completion that returns hands decode_assistant_message exactly one
\* of end_of_turn, end_of_message, out_of_tokens: out_of_tokens exactly when no
\* result decoded to an end marker, else the reason of the marker seen; the
\* reason is set once and the prediction made once (C15_Inv in every state,
\* C15_Step in every step).
C15_StopReason == []C15_Inv /\ [][C15_Step]_vars

C15_Witness ==
    /\ pc[1] = "done" /\ args[1].mode = "chat_completion" /\ HasFrame(1)
    /\ Len(out[1]) = 2 /\ PromptLen(1) + 2 = gen[1].total_len
    /\ ~StopEmitted(1)
    /\ \E pr \in prediction[1] : pr.generation.stop_reason = "out_of_tokens"

C16_Inv ==
    \A c \in Calls : \A k \in 1..Len(out[c]) :
        IF args[c].logprobs
        THEN /\ out[c][k].logprobs # {}
             /\ \A lps \in out[c][k].logprobs :
                    Len(lps) = (IF k = 1 THEN PromptLen(c) ELSE 1)
        ELSE out[c][k].logprobs = {}

\* the step yields a result of call c
Yields(c) == Len(out'[c]) = Len(out[c]) + 1

C16_Step ==
    \A c \in Calls : (Yields(c) /\ args[c].logprobs) =>
        \A lps \in out'[c][Len(out'[c])].logprobs :
            /\ Len(lps) = gen'[c].cur_pos - gen'[c].prev_pos
            /\ Len(lps) = Len(forwards'[c][Len(forwards'[c])].tokens)

\* C16: with logprobs requested, a step's TokenResult carries
\* cur_pos - prev_pos log-probabilities, one per position the step's forward
\* pass was fed: prompt_len in the first step, one in every later step
\* (C16_Inv in every state, C16_Step in every step).
C16_LogProbCount == []C16_Inv /\ [][C16_Step]_vars

C16_Witness ==
    /\ pc[1] = "done" /\ args[1].logprobs /\ PromptLen(1) = 2
    /\ Len(out[1]) = 1
    /\ \E lps \in out[1][1].logprobs : Len(lps) = 2

\* the adapter of call c was called with max_gen_len unset, zero or past the
\* context limit
Unresolved(c) ==
    /\ args[c].mode \in {"text_completion", "chat_completion"}
    /\ \/ args[c].max_gen_len = None
       \/ args[c].max_gen_len = 0
       \/ args[c].max_gen_len > max_seq_len

\* C17: when an adapter is called with max_gen_len unset, zero or above the
\* context limit, generate runs with max_gen_len = max_seq_len - 1 from its
\* first pull on, and no forward pass or result precedes that.
C17_ResolvedGenLen ==
    \A c \in Calls : Unresolved(c) =>
        /\ HasFrame(c) => gen[c].max_gen_len = max_seq_len - 1
        /\ ~HasFrame(c) => (forwards[c] = <<>> /\ out[c] = <<>>)

C17_Witness ==
    /\ pc[1] = "done" /\ HasFrame(1) /\ Unresolved(1)
    /\ args[1].max_gen_len > max_seq_len
    /\ PromptLen(1) = 1 /\ Len(out[1]) = max_seq_len - 1

IsAdapter(c) == args[c].mode \in {"text_completion", "chat_completion"}

\* the token list the returned prediction of call c was decoded from
DecodedFrom(pr, c) ==
    IF args[c].mode = "text_completion" THEN pr.generation = Decode(Tokens(c))
    ELSE pr.generation.content = Decode(Tokens(c))

\* C18: the adapter's token list is the TokenResult tokens in emission order,
\* which are buffer positions prompt_len .. prompt_len + n - 1 (a final stop
\* token included, no prompt token), and the prediction it returns is decoded
\* from exactly that list; with logprobs the texts and log-probabilities run
\* in parallel.
C18_Accumulation ==
    \A c \in Calls : IsAdapter(c) =>
        /\ adapter[c].tokens = Tokens(c)
        /\ HasFrame(c) =>
                /\ PromptLen(c) + Len(adapter[c].tokens) <= gen[c].total_len
                /\ \A k \in 1..Len(adapter[c].tokens) :
                        adapter[c].tokens[k] = gen[c].tokens[PromptLen(c) + k]
                /\ gen[c].eos_reached =>
                        adapter[c].tokens[Len(adapter[c].tokens)] \in stop_tokens
        /\ args[c].logprobs =>
                /\ adapter[c].decoded_tokens = [k \in 1..Len(out[c]) |-> out[c][k].text]
                /\ adapter[c].token_logprobs = [k \in 1..Len(out[c]) |-> out[c][k].logprobs]
        /\ pc[c] = "done" =>
                /\ prediction[c] # {}
                /\ \A pr \in prediction[c] :
                        /\ DecodedFrom(pr, c)
                        /\ pr.decoded_tokens =
                                (IF args[c].logprobs THEN {adapter[c].decoded_tokens} ELSE {})
                        /\ pr.logprobs =
                                (IF args[c].logprobs THEN {adapter[c].token_logprobs} ELSE {})

C18_Witness ==
    /\ pc[1] = "done" /\ args[1].mode = "text_completion" /\ PromptLen(1) = 1
    /\ args[1].prompt[1] = eot_id
    /\ Tokens(1) = <<word_id, eom_id>>
    /\ \E pr \in prediction[1] : pr.generation = <<"w", "<|eom_id|>">>

\* the generator of call c has ended: it returned, or an exception left it
Exhausted(c) == pc[c] \in {"done", "raised"}

C19_Inv ==
    \A c \in Calls :
        /\ HasFrame(c) => Len(out[c]) <= gen[c].total_len - PromptLen(c)
        /\ ~HasFrame(c) => out[c] = <<>>
        /\ pc[c] = "raised" =>
                (error[c] = "sampling" /\ args[c].temperature > 0 /\ args[c].top_p < 0)

C19_Step ==
    \A c \in Calls : Exhausted(c) =>
        /\ Exhausted(c)'
        /\ out'[c] = out[c]
        /\ forwards'[c] = forwards[c]

\* C19: when every forward pass returns and the caller keeps pulling, the call
\* (call 1, the one that runs) reaches the exhausted state, having emitted at most total_len - prompt_len
\* results, and an exhausted generator emits nothing and runs no forward pass;
\* it ends by an exception only when sample_top_p raises (top_p < 0).
C19_FiniteProduction ==
    /\ <>Exhausted(1)
    /\ []C19_Inv
    /\ [][C19_Step]_vars

C19_Witness ==
    /\ pc[1] = "done" /\ HasFrame(1) /\ ~StopEmitted(1)
    /\ PromptLen(1) = 1 /\ Len(out[1]) = max_seq_len - 1
    /\ Len(forwards[1]) = max_seq_len - 1

\* position i (0-based) lies in the k-th window handed to model.forward
InWindow(c, k, i) ==
    /\ forwards[c][k].start_pos <= i
    /\ i < forwards[c][k].start_pos + Len(forwards[c][k].tokens)

\* C20: the first forward pass is over [0, prompt_len) at offset 0 and every
\* later one over the single position cur_pos - 1 at offset cur_pos - 1; the
\* offsets (the cursor) start at 0 and strictly increase, the windows are
\* non-empty and contiguous, and every position below cur_pos has been fed
\* exactly once, at its own index and with the token the buffer holds there.
C20_WindowCoverage ==
    \A c \in Calls : forwards[c] # <<>> =>
        LET F == forwards[c]
            L == PromptLen(c)
        IN  /\ F[1] = [tokens |-> args[c].prompt, start_pos |-> 0]
            /\ \A k \in 2..Len(F) :
                    /\ F[k].start_pos = L + k - 2
                    /\ Len(F[k].tokens) = 1
            /\ \A k \in 1..Len(F) : Len(F[k].tokens) >= 1
            /\ \A k \in 1..(Len(F) - 1) :
                    /\ F[k].start_pos < F[k + 1].start_pos
                    /\ F[k + 1].start_pos = F[k].start_pos + Len(F[k].tokens)
            /\ gen[c].cur_pos = L + Len(F) - 1
            /\ gen[c].prev_pos \in {F[Len(F)].start_pos, gen[c].cur_pos}
            /\ \A i \in 0..(gen[c].cur_pos - 1) :
                    /\ Cardinality({k \in 1..Len(F) : InWindow(c, k, i)}) = 1
                    /\ \A k \in 1..Len(F) : InWindow(c, k, i) =>
                            F[k].tokens[i - F[k].start_pos + 1] = gen[c].tokens[i + 1]
            /\ \A k \in 1..Len(F) : \A i \in gen[c].cur_pos..(gen[c].total_len - 1) :
                    ~InWindow(c, k, i)

C20_Witness ==
    /\ pc[1] = "done" /\ Len(forwards[1]) = 2
    /\ forwards[1][1] = [tokens |-> <<eot_id>>, start_pos |-> 0]
    /\ forwards[1][2] = [tokens |-> <<word_id>>, start_pos |-> 1]
    /\ gen[1].cur_pos = 2

\* the positions past the prompt that the buffer of call c has had written
Written(c) ==
    {i \in PromptLen(c)..(gen[c].total_len - 1) : gen[c].tokens[i + 1] # pad_id}

C21_Inv ==
    \A c \in Calls :
        /\ pc[c] = "suspended" =>
                /\ Len(forwards[c]) = Len(out[c])
                /\ Cardinality(Written(c)) = Len(out[c])
        /\ (pc[c] = "done" /\ HasFrame(c) /\ ~Degenerate(args[c])) =>
                /\ Len(forwards[c]) = Len(out[c])
                /\ Cardinality(Written(c)) = Len(out[c])
        /\ pc[c] = "start" => (forwards[c] = <<>> /\ out[c] = <<>>)

C21_Step ==
    \A c \in Calls :
        /\ Len(forwards'[c]) \in {Len(forwards[c]), Len(forwards[c]) + 1}
        /\ Len(out'[c]) \in {Len(out[c]), Len(out[c]) + 1}
        /\ Yields(c) =>
                /\ Len(forwards'[c]) = Len(forwards[c]) + 1
                /\ pc'[c] = "suspended"
        /\ pc'[c] = pc[c] =>
                (pc[c] = "suspended" /\ Yields(c)) \/ (gen'[c] = gen[c] /\ forwards'[c] = forwards[c])

\* C21: outside the degenerate branch, wherever the generator is suspended (and
\* when it has returned) it has made as many forward passes and buffer writes
\* as it has yielded results; a pull makes at most one forward pass and one
\* result, a result comes with a forward pass of the same pull, and nothing of
\* a call changes except by a pull (C21_Inv in every state, C21_Step in every
\* step).
C21_DemandPulled == []C21_Inv /\ [][C21_Step]_vars

C21_Witness ==
    /\ pc[1] = "suspended" /\ Len(out[1]) = 1 /\ Len(forwards[1]) = 1
    /\ gen[1].total_len - PromptLen(1) = 2
    /\ ~StopEmitted(1)

\* C22: past the prompt, a position no step has processed holds pad_id and
\* the position of the k-th step holds the token of the k-th TokenResult.
C22_Inv ==
    \A c \in Calls : HasFrame(c) =>
        \A i \in PromptLen(c)..(gen[c].total_len - 1) :
            LET k == i - PromptLen(c) + 1 IN
            IF k <= Len(out[c])
            THEN gen[c].tokens[i + 1] = out[c][k].token /\ gen[c].tokens[i + 1] # pad_id
            ELSE gen[c].tokens[i + 1] = pad_id

C22_Step ==
    \A c \in Calls : HasFrame(c) =>
        /\ \A i \in 1..Len(gen[c].tokens) :
                gen[c].tokens[i] # pad_id => gen'[c].tokens[i] = gen[c].tokens[i]
        /\ Cardinality({i \in 1..Len(gen[c].tokens) : gen'[c].tokens[i] # gen[c].tokens[i]})
                = (IF Yields(c) THEN 1 ELSE 0)
        /\ Yields(c) =>
                gen'[c].tokens[gen'[c].cur_pos + 1] = out'[c][Len(out'[c])].token

\* C22: the generated region is written once: unprocessed positions hold
\* pad_id, a step writes exactly the position it yields and no written
\* position changes afterwards (C22_Inv in every state, C22_Step in every
\* step).
C22_WriteOnce == []C22_Inv /\ [][C22_Step]_vars

C22_Witness ==
    /\ pc[1] = "suspended" /\ PromptLen(1) = 1 /\ gen[1].total_len = 3
    /\ Len(out[1]) = 1 /\ gen[1].tokens[2] = word_id /\ gen[1].tokens[3] = pad_id

C23_Inv ==
    \A c \in Calls : HasFrame(c) =>
        /\ gen[c].input_text_mask =
                [i \in 1..gen[c].total_len |-> i <= PromptLen(c)]
        /\ \A i \in 1..PromptLen(c) : args[c].prompt[i] # pad_id

C23_Step ==
    \A c \in Calls :
        /\ HasFrame(c) => gen'[c].input_text_mask = gen[c].input_text_mask
        /\ Yields(c) =>
                /\ ~Entry(c).input_text_mask[Entry(c).cur_pos + 1]
                /\ gen'[c].cur_pos = Entry(c).cur_pos
                /\ \A sampled \in Vocab : ForceToken(Entry(c), sampled) = sampled

\* C23: the prompt mask is true exactly at the prompt positions from the first
\* frame on and never changes, and in every step that yields mask[cur_pos] is
\* false, so the forcing rule hands on whatever the sampler or arg-max chose
\* (C23_Inv in every state, C23_Step in every step).
C23_PromptMask == []C23_Inv /\ [][C23_Step]_vars

C23_Witness ==
    /\ pc[1] = "suspended" /\ PromptLen(1) = 2 /\ Len(out[1]) = 1
    /\ gen[1].input_text_mask = <<TRUE, TRUE, FALSE>>
    /\ gen[1].tokens[3] = eom_id

C24_Inv ==
    \A c \in Calls :
        /\ pc[c] = "start" => ~gen[c].eos_reached
        /\ gen[c].eos_reached =>
                /\ Len(out[c]) >= 1
                /\ out[c][Len(out[c])].token \in stop_tokens
                /\ ~gen[c].input_text_mask[gen[c].cur_pos + 1]
                /\ pc[c] \in {"suspended", "done"}

C24_Step ==
    \A c \in Calls :
        /\ (~gen[c].eos_reached /\ gen'[c].eos_reached) =>
                /\ Yields(c)
                /\ out'[c][Len(out'[c])].token \in stop_tokens
                /\ ~gen'[c].input_text_mask[gen'[c].cur_pos + 1]
        /\ gen[c].eos_reached =>
                /\ gen'[c].eos_reached
                /\ out'[c] = out[c]
                /\ forwards'[c] = forwards[c]
                /\ pc'[c] \in {pc[c], "done"}

\* C24: eos_reached starts false, is set only by a step that yields a stop token
\* at a position outside the prompt mask, is never reset, and the step that
\* sets it is the last one: the next pull leaves the loop (C24_Inv in every
\* state, C24_Step in every step).
C24_StickyStop == []C24_Inv /\ [][C24_Step]_vars

C24_Witness ==
    /\ pc[1] = "done" /\ gen[1].eos_reached
    /\ Len(out[1]) = 2 /\ out[1][2].token = eot_id
    /\ args[1].prompt = <<eot_id>>

\* the logits the collaborator returned for the input position before the one
\* of the k-th result of call c
RowOf(c, k) == oracle[PromptLen(c) + k - 1]

\* C25: every emitted token is, for temperature > 0, a draw of sample_top_p from
\* softmax(logits / temperature) of the last position, and for temperature <= 0
\* the arg-max of the raw logits, whatever top_p is; sample_top_p raises only
\* when temperature > 0.
C25_PathSelection ==
    \A c \in Calls :
        /\ \A k \in 1..Len(out[c]) :
                IF args[c].temperature > 0
                THEN out[c][k].token \in
                        sample_top_p(Softmax(RowOf(c, k), args[c].temperature), args[c].top_p)
                ELSE out[c][k].token = ArgMax(RowOf(c, k))
        /\ error[c] = "sampling" =>
                /\ args[c].temperature > 0
                /\ sample_top_p(Softmax(RowOf(c, Len(out[c]) + 1), args[c].temperature),
                                args[c].top_p) = {}

C25_Witness ==
    /\ pc[1] = "done" /\ args[1].temperature = 0 /\ args[1].top_p = 15
    /\ Len(out[1]) = 2 /\ out[1][1].token = word_id /\ out[1][2].token = eom_id

\* the stored log-probability of position i of call c
StoredLogProb(c, i) == (CHOOSE lps \in gen[c].token_logprobs : TRUE)[i + 1]

\* the positions whose value a step has computed so far
Scored(c) == IF out[c] = <<>> THEN {} ELSE 1..(PromptLen(c) + Len(out[c]) - 1)

\* C26: with logprobs requested, after every step the stored value of each
\* position i the steps have covered is the log-likelihood of the token placed
\* at i under the logits returned for input position i - 1; position 0 and the
\* positions not yet covered hold no value, and each result carries the values
\* of the positions of its step.
C26_Inv ==
    \A c \in Calls :
        (HasFrame(c) /\ args[c].logprobs /\ ~Degenerate(args[c])) =>
            /\ \A i \in 0..(gen[c].total_len - 1) :
                    StoredLogProb(c, i) =
                        IF i \in Scored(c)
                        THEN LogLik(oracle[i], gen[c].tokens[i + 1])
                        ELSE ZeroLogProb
            /\ \A k \in 1..Len(out[c]) :
                    out[c][k].logprobs =
                        {[j \in 1..(IF k = 1 THEN PromptLen(c) ELSE 1) |->
                            StoredLogProb(c, IF k = 1 THEN j ELSE PromptLen(c) + k - 1)]}

\* a step leaves the values of the positions up to its cursor as they were
C26_Step ==
    \A c \in Calls :
        (Yields(c) /\ HasFrame(c) /\ args[c].logprobs) =>
            \A i \in 0..gen'[c].prev_pos :
                \A old \in gen[c].token_logprobs, new \in gen'[c].token_logprobs :
                    new[i + 1] = old[i + 1]

C26_LogProbAlignment == []C26_Inv /\ [][C26_Step]_vars

C26_Witness ==
    /\ args[1].logprobs /\ PromptLen(1) = 2 /\ Len(out[1]) = 1
    /\ oracle[1] # FlatRow /\ oracle[2] # FlatRow /\ oracle[1] # oracle[2]
    /\ StoredLogProb(1, 0) = ZeroLogProb
    /\ StoredLogProb(1, 1) # ZeroLogProb /\ StoredLogProb(1, 2) # StoredLogProb(1, 1)

\* C27: without logprobs no TokenResult carries log-probabilities and the
\* returned prediction has neither logprobs nor decoded_tokens; with logprobs
\* every TokenResult carries them and the prediction's two lists hold, in
\* emission order, the log-probabilities and the text of each emitted token.
C27_DiagnosticsOnRequest ==
    \A c \in Calls :
        /\ \A k \in 1..Len(out[c]) : (out[c][k].logprobs = {}) <=> ~args[c].logprobs
        /\ (pc[c] = "done" /\ IsAdapter(c)) =>
                \A pr \in prediction[c] :
                    IF args[c].logprobs
                    THEN /\ pr.logprobs = {[k \in 1..Len(out[c]) |-> out[c][k].logprobs]}
                         /\ pr.decoded_tokens =
                                {[k \in 1..Len(out[c]) |-> DecodeToken(out[c][k].token)]}
                    ELSE pr.logprobs = {} /\ pr.decoded_tokens = {}

C27_Witness ==
    /\ pc[1] = "done" /\ args[1].mode = "chat_completion" /\ args[1].logprobs
    /\ Len(out[1]) = 2
    /\ \E pr \in prediction[1] :
            \E lp \in pr.logprobs, dt \in pr.decoded_tokens : Len(lp) = 2 /\ Len(dt) = 2

\* the frame call c has after its first k results when it runs alone and draws
\* the tokens it emitted, computed from its own arguments and forward results
RECURSIVE SoloFrame(_, _)
SoloFrame(c, k) ==
    IF k = 0 THEN Frame0(args[c])
    ELSE LET p == SoloFrame(c, k - 1)
             f == IF k = 1 THEN p
                  ELSE [p EXCEPT !.prev_pos = p.cur_pos, !.cur_pos = p.cur_pos + 1]
         IN  Iterate(f, PairLogits(c, f), out[c][k].token)

\* the call running alone goes on after its first k results
SoloContinues(c, k) ==
    IF k = 0
    THEN /\ ~PromptTooLong(PromptLen(c))
         /\ InRange(Frame0(args[c]).cur_pos, Frame0(args[c]).total_len)
    ELSE LET p == SoloFrame(c, k) IN ~AllEos(p) /\ InRange(p.cur_pos + 1, p.total_len)

\* the tokens the call running alone may emit as its k-th result
SoloChoices(c, k) ==
    NextTokenChoices(oracle[(c - 1) * (max_seq_len - 1) + PromptLen(c) + k - 1],
                     args[c].temperature, args[c].top_p)

\* C28: with the pulls of two calls interleaved in any order, each call's
\* results, buffer, cursor, mask and stop flag are at every moment those of
\* the same call running alone against the same forward results, it ends
\* exactly where the call alone ends, and a pull of one call leaves the other
\* call's frame and results untouched.
C28_Inv ==
    \A c \in Calls :
        /\ \A k \in 1..Len(out[c]) :
                SoloContinues(c, k - 1) /\ out[c][k].token \in SoloChoices(c, k)
        /\ HasFrame(c) =>
                LET s == SoloFrame(c, Len(out[c])) IN
                /\ gen[c].tokens = s.tokens
                /\ gen[c].cur_pos = s.cur_pos
                /\ gen[c].input_text_mask = s.input_text_mask
                /\ gen[c].eos_reached = s.eos_reached
        /\ pc[c] = "done" => ~SoloContinues(c, Len(out[c]))

C28_Step ==
    \A c \in Calls :
        (pc'[c] # pc[c] \/ gen'[c] # gen[c] \/ out'[c] # out[c]) =>
            \A d \in Calls \ {c} :
                /\ gen'[d] = gen[d] /\ out'[d] = out[d]
                /\ forwards'[d] = forwards[d] /\ pc'[d] = pc[d]

C28_CallIsolation == []C28_Inv /\ [][C28_Step]_vars

C28_Witness ==
    /\ pc[1] = "suspended" /\ pc[2] = "done"
    /\ gen[2].eos_reached /\ ~gen[1].eos_reached
    /\ Len(out[1]) = 1 /\ Len(out[2]) = 1
    /\ InRange(gen[1].cur_pos + 1, gen[1].total_len)

\* the call has ended: its generator is exhausted or an exception left it
Ended(c) == pc[c] \in {"done", "raised"}

\* C29 as stated: through an adapter, whenever the prompt is not rejected the
\* call makes at least one forward pass and emits at least one TokenResult.
C29_AlwaysOneResult ==
    \A c \in Calls :
        (IsAdapter(c) /\ Ended(c) /\ ~PromptTooLong(PromptLen(c))) =>
            Len(forwards[c]) >= 1 /\ Len(out[c]) >= 1

\* C29: an adapter resolves max_gen_len (unset or any non-negative integer)
\* into 1 .. max_seq_len - 1, so for a prompt that is not rejected
\* total_len > prompt_len, the degenerate branch is not taken and the first
\* pull enters the loop; every such call that ends has made a forward pass,
\* and every one that returns has emitted at least one TokenResult (a call
\* without a TokenResult ended by an exception of the forward pass or of
\* the sampler).
C29_BudgetLeft ==
    /\ \A m \in {None} \cup 0..(max_seq_len + 2) :
            ResolveMaxGenLen(m) \in 1..(max_seq_len - 1)
    /\ \A c \in Calls :
            (IsAdapter(c) /\ ~PromptTooLong(PromptLen(c))) =>
                /\ ~Degenerate(args[c])
                /\ pc[c] = "start" => Continues(c)
                /\ HasFrame(c) =>
                        /\ gen[c].max_gen_len \in 1..(max_seq_len - 1)
                        /\ gen[c].total_len > PromptLen(c)
                /\ Ended(c) => Len(forwards[c]) >= 1
                /\ pc[c] = "done" => Len(out[c]) >= 1
                /\ (Ended(c) /\ out[c] = <<>>) =>
                        pc[c] = "raised" /\ error[c] \in {"forward", "sampling"}

C29_Witness ==
    /\ args[1].mode = "text_completion" /\ args[1].max_gen_len = 0
    /\ PromptLen(1) = max_seq_len - 1
    /\ pc[1] = "done" /\ Len(out[1]) = 1 /\ Len(forwards[1]) = 1
    /\ gen[1].total_len = max_seq_len

====
